---- MODULE Spec2Model ----
(***************************************************************************)
(* A model of mmworkbench/core.py: the conflict resolver                   *)
(* (resolve_entity_conflicts), the index translation of Query              *)
(* (transform_index, transform_span) and QueryEntity.from_query.           *)
(***************************************************************************)
EXTENDS Integers, Sequences, FiniteSets, TLC

VARIABLES
    query_entities,  \* resolve_entity_conflicts: the argument, a list of entities
    filtered,        \* the working list: references (1-based positions) into query_entities
    i,               \* the outer cursor (0-based, as in the source)
    j,               \* the inner cursor (0-based)
    target,          \* the reference held by the local `target` (0: unbound)
    include_target,  \* the local flag
    pc,              \* the position in resolve_entity_conflicts
    _texts,          \* Query._texts: the raw, processed and normalized text
    _char_maps,      \* Query._char_maps: (form, form) -> None or a dict
    call,            \* the last transform_index call and its outcome
    onward,          \* a second transform_index call, made on the first one's result
    qe               \* the last QueryEntity.from_query call and its outcome

rvars == <<query_entities, filtered, i, j, target, include_target, pc>>

qvars == <<_texts, _char_maps, call, onward, qe>>

vars == <<rvars, qvars>>

\* ------------------------------------------------------------------ bounds
\* the longest input list
MaxEntities == 3
\* span indices range over 0..MaxPos
MaxPos == 2
\* confidences range over 1..MaxConf
MaxConf == 2

\* character indices given to transform_index, and the keys and values of
\* the char maps, range over 0..MaxIndex
MaxIndex == 1
\* the most entries the char maps of one Query hold together
MaxMapEntries == 2
\* the most entries the char maps hold together where from_query is called
MaxEntityMapEntries == 1
\* the longest raw and processed text
MaxTextLen == 2
\* the most normalized tokens
MaxTokens == 2

\* ---------------------------------------------------------- the text forms
TEXT_FORM_RAW == 0

TEXT_FORM_PROCESSED == 1

TEXT_FORM_NORMALIZED == 2

TEXT_FORMS == {TEXT_FORM_RAW, TEXT_FORM_PROCESSED, TEXT_FORM_NORMALIZED}

\* ------------------------------------------------------- outcomes of a call
\* a call returns a value or raises
Ok(v) == [ok |-> TRUE, value |-> v, error |-> ""]

Raise(m) == [ok |-> FALSE, value |-> 0, error |-> m]

\* an optional argument: <<>> is None, <<x>> is x
None == <<>>

Some(x) == <<x>>

\* ------------------------------------------------------------- the char maps
\* a value of the char_maps dictionary: None, or a dict of index -> index
NoneMap == [kind |-> "None", d |-> <<>>]

DictMap(f) == [kind |-> "dict", d |-> f]

Indices == 0..MaxIndex

\* the dicts of exactly n entries
DictsOfSize(n) ==
    UNION {{DictMap(f) : f \in [D -> Indices]} :
             D \in {S \in SUBSET Indices : Cardinality(S) = n}}

\* what create_query or the caller puts under one key: nothing ("absent"),
\* None, or a dict of at most n entries
MapChoices(n) ==
    {[kind |-> "absent", d |-> <<>>], NoneMap}
        \cup UNION {DictsOfSize(k) : k \in 0..(IF n < 0 THEN 0 ELSE n)}

Entries(m) == Cardinality(DOMAIN m.d)

\* the keys transform_index reads
MapKeys ==
    {<<TEXT_FORM_RAW, TEXT_FORM_PROCESSED>>, <<TEXT_FORM_PROCESSED, TEXT_FORM_RAW>>,
     <<TEXT_FORM_PROCESSED, TEXT_FORM_NORMALIZED>>,
     <<TEXT_FORM_NORMALIZED, TEXT_FORM_PROCESSED>>}

\* the char_maps dictionary holding the choices that are not "absent"
MakeCharMaps(rp, pr, pn, np) ==
    LET choice == [k \in MapKeys |->
                     IF k = <<TEXT_FORM_RAW, TEXT_FORM_PROCESSED>> THEN rp
                     ELSE IF k = <<TEXT_FORM_PROCESSED, TEXT_FORM_RAW>> THEN pr
                     ELSE IF k = <<TEXT_FORM_PROCESSED, TEXT_FORM_NORMALIZED>> THEN pn
                     ELSE np]
    IN [k \in {x \in MapKeys : choice[x].kind # "absent"} |-> choice[k]]

\* Query.__init__: self._char_maps = char_maps, of at most n entries in all
InitCharMaps(n) ==
    \E rp \in MapChoices(n) :
      \E pr \in MapChoices(n - Entries(rp)) :
        \E pn \in MapChoices(n - Entries(rp) - Entries(pr)) :
          \E np \in MapChoices(n - Entries(rp) - Entries(pr) - Entries(pn)) :
            _char_maps = MakeCharMaps(rp, pr, pn, np)

\* the truth value of a mapping: None and the empty dict are false
Truthy(mapping) == mapping.kind = "dict" /\ DOMAIN mapping.d # {}

\* return mapping[index] if mapping else index, KeyError -> ValueError
Lookup(mapping, index) ==
    IF Truthy(mapping)
    THEN IF index \in DOMAIN mapping.d
         THEN Ok(mapping.d[index])
         ELSE Raise("Invalid index")
    ELSE Ok(index)

_process_index(index, form_in) ==
    IF form_in = TEXT_FORM_NORMALIZED
    THEN Raise("form cannot be processed")
    ELSE LET mapping_key == <<form_in, form_in + 1>> IN
         IF mapping_key \notin DOMAIN _char_maps
         THEN Ok(index)
         ELSE Lookup(_char_maps[mapping_key], index)

\* _unprocess_index with the test of `mapping[index] if mapping else index` inverted
_unprocess_index_inverted(index, form_in) ==
    IF form_in = TEXT_FORM_RAW
    THEN Raise("form cannot be unprocessed")
    ELSE LET mapping_key == <<form_in, form_in - 1>> IN
         IF mapping_key \notin DOMAIN _char_maps
         THEN Ok(index)
         ELSE IF Truthy(_char_maps[mapping_key])
              THEN Ok(index)
              ELSE Lookup(DictMap(_char_maps[mapping_key].d), index)

_unprocess_index(index, form_in) ==
    IF form_in = TEXT_FORM_RAW
    THEN Raise("form cannot be unprocessed")
    ELSE LET mapping_key == <<form_in, form_in - 1>> IN
         IF mapping_key \notin DOMAIN _char_maps
         THEN Ok(index)
         ELSE Lookup(_char_maps[mapping_key], index)

RECURSIVE unprocess_loop(_, _, _)
\* while form_in > form_out: index = self._unprocess_index(index, form_in); form_in -= 1
unprocess_loop(index, form_in, form_out) ==
    IF form_in > form_out
    THEN LET r == _unprocess_index(index, form_in) IN
         IF r.ok THEN unprocess_loop(r.value, form_in - 1, form_out) ELSE r
    ELSE Ok(index)

\* the upward loop written as `if form_in < form_out:`, one step at most
process_loop_once(index, form_in, form_out) ==
    IF form_in < form_out THEN _process_index(index, form_in) ELSE Ok(index)

RECURSIVE process_loop(_, _, _)
\* while form_in < form_out: index = self._process_index(index, form_in); form_in += 1
process_loop(index, form_in, form_out) ==
    IF form_in < form_out
    THEN LET r == _process_index(index, form_in) IN
         IF r.ok THEN process_loop(r.value, form_in + 1, form_out) ELSE r
    ELSE Ok(index)

transform_index(index, form_in, form_out) ==
    IF form_in \notin TEXT_FORMS \/ form_out \notin TEXT_FORMS
    THEN Raise("Invalid text form")
    ELSE IF form_in > form_out
         THEN unprocess_loop(index, form_in, form_out)
         ELSE process_loop(index, form_in, form_out)

\* Span(transform_index(start), transform_index(end)): the first failure is raised
transform_span(text_span, form_in, form_out) ==
    LET s == transform_index(text_span.start, form_in, form_out)
        e == transform_index(text_span.end, form_in, form_out)
    IN IF ~s.ok THEN s
       ELSE IF ~e.ok THEN e
       ELSE Ok([start |-> s.value, end |-> e.value])

\* ------------------------------------------------- calls of transform_index
NoCall == [made |-> FALSE, index |-> 0, form_in |-> 0, form_out |-> 0, result |-> Ok(0)]

Called(index, form_in, form_out) ==
    [made |-> TRUE, index |-> index, form_in |-> form_in, form_out |-> form_out,
     result |-> transform_index(index, form_in, form_out)]

NoEntity == [made |-> FALSE, span |-> None, normalized_span |-> None, result |-> Ok(0)]

\* a Query that the running specification does not read
NoQuery ==
    /\ _texts = <<<<>>, <<>>, <<>>>>
    /\ _char_maps = <<>>
    /\ call = NoCall
    /\ onward = NoCall
    /\ qe = NoEntity

InitIndex ==
    /\ InitCharMaps(MaxMapEntries)
    /\ _texts = <<<<>>, <<>>, <<>>>>
    /\ call = NoCall
    /\ onward = NoCall
    /\ qe = NoEntity
    /\ query_entities = <<>>
    /\ filtered = <<>>
    /\ i = 0
    /\ j = 0
    /\ target = 0
    /\ include_target = TRUE
    /\ pc = "done"

\* query.transform_index(index, form_in, form_out): the Query never changes,
\* so one call on each Query shows all it can do
TransformIndex ==
    /\ ~call.made
    /\ \E index \in Indices, form_in \in TEXT_FORMS, form_out \in TEXT_FORMS :
         call' = Called(index, form_in, form_out)
    /\ onward' = NoCall
    /\ UNCHANGED <<_texts, _char_maps, qe, rvars>>

\* query.transform_index(r, form_out, f) on the index r the last call returned
TransformOnward ==
    /\ call.made
    /\ call.result.ok
    /\ ~onward.made
    /\ \E form_out \in TEXT_FORMS :
         onward' = Called(call.result.value, call.form_out, form_out)
    /\ UNCHANGED <<_texts, _char_maps, call, qe, rvars>>

NextIndex == TransformIndex \/ TransformOnward

SpecIndex == InitIndex /\ [][NextIndex]_vars

\* --------------------------------------------------------------- the texts
\* a text is a sequence of characters; " " is the whitespace
Chars == {"a", " "}

Texts == UNION {[1..n -> Chars] : n \in 0..MaxTextLen}

\* the normalized tokens: each token['entity'] is one word
TokenLists == UNION {[1..n -> {<<"a">>}] : n \in 0..MaxTokens}

RECURSIVE JoinSpace(_)
\* ' '.join(tokens)
JoinSpace(tokens) ==
    IF tokens = <<>> THEN <<>>
    ELSE IF Len(tokens) = 1 THEN tokens[1]
    ELSE tokens[1] \o <<" ">> \o JoinSpace(Tail(tokens))

\* Query.__init__: self._texts = (raw_text, processed_text, norm_text)
InitTexts ==
    \E raw_text \in Texts, processed_text \in Texts, normalized_tokens \in TokenLists :
      _texts = <<raw_text, processed_text, JoinSpace(normalized_tokens)>>

\* query.text, query.processed_text, query.normalized_text
text_of(form) == _texts[form + 1]

\* a slice bound as Python reads it: negative counts from the end, then clamped
Bound(s, x) ==
    IF x < 0
    THEN (IF Len(s) + x < 0 THEN 0 ELSE Len(s) + x)
    ELSE (IF x > Len(s) THEN Len(s) ELSE x)

\* s[a:b]
Slice(s, a, b) == SubSeq(s, Bound(s, a) + 1, Bound(s, b))

\* len(s.split()): the maximal runs of characters that are not whitespace
SplitCount(s) ==
    Cardinality({k \in 1..Len(s) : s[k] # " " /\ (k = 1 \/ s[k - 1] = " ")})

\* get_token_span(full_text, span)
get_token_span(full_text, span) ==
    LET span_text == Slice(full_text, span.start, span.end + 1)
        start == SplitCount(Slice(full_text, 0, span.start))
        end == start - 1 + SplitCount(span_text)
    IN [start |-> start, end |-> end]

\* ------------------------------------------------------ QueryEntity.from_query
\* bool(span): None is false; a Span is judged by Span.__len__, and bool()
\* raises when __len__ is negative
Truth(opt) ==
    IF opt = None THEN Ok(FALSE)
    ELSE LET len == opt[1].end - opt[1].start + 1 IN
         IF len < 0 THEN Raise("__len__() should return >= 0") ELSE Ok(len # 0)

\* the text this form's token span is counted in: full_text[form]
full_text(form) ==
    <<text_of(TEXT_FORM_RAW), text_of(TEXT_FORM_PROCESSED), text_of(TEXT_FORM_RAW)>>[form + 1]

\* QueryEntity(texts, spans, token_spans, entity)
QueryEntity(raw_span, proc_span, norm_span) ==
    LET spans == <<raw_span, proc_span, norm_span>> IN
    [texts |-> [f \in 1..3 |-> Slice(text_of(f - 1), spans[f].start, spans[f].end + 1)],
     spans |-> spans,
     token_spans |-> [f \in 1..3 |-> get_token_span(full_text(f - 1), spans[f])]]

\* the branch `if span:`
from_raw_span(span) ==
    LET proc == transform_span(span, TEXT_FORM_RAW, TEXT_FORM_PROCESSED)
        norm == transform_span(span, TEXT_FORM_RAW, TEXT_FORM_NORMALIZED)
    IN IF ~proc.ok THEN proc
       ELSE IF ~norm.ok THEN norm
       ELSE Ok(QueryEntity(span, proc.value, norm.value))

\* the branch `elif normalized_span:`
from_normalized_span(norm_span) ==
    LET proc == transform_span(norm_span, TEXT_FORM_NORMALIZED, TEXT_FORM_PROCESSED)
        raw == transform_span(norm_span, TEXT_FORM_NORMALIZED, TEXT_FORM_RAW)
    IN IF ~proc.ok THEN proc
       ELSE IF ~raw.ok THEN raw
       ELSE Ok(QueryEntity(raw.value, proc.value, norm_span))

\* from_query(query, entity, span, normalized_span); with neither branch
\* taken the locals are unbound at `texts = (raw_text, proc_text, norm_text)`
from_query(span, normalized_span) ==
    LET ts == Truth(span) IN
    IF ~ts.ok THEN ts
    ELSE IF ts.value THEN from_raw_span(span[1])
    ELSE LET tn == Truth(normalized_span) IN
         IF ~tn.ok THEN tn
         ELSE IF tn.value THEN from_normalized_span(normalized_span[1])
         ELSE Raise("UnboundLocalError")

\* the Span values a caller passes: start in 0..MaxIndex, end from start - 1
\* (the empty span) to MaxIndex
SpanArgs ==
    UNION {{Some([start |-> s, end |-> e]) : e \in (s - 1)..MaxIndex} : s \in Indices}

InitEntity ==
    /\ InitCharMaps(MaxEntityMapEntries)
    /\ InitTexts
    /\ call = NoCall
    /\ onward = NoCall
    /\ qe = NoEntity
    /\ query_entities = <<>>
    /\ filtered = <<>>
    /\ i = 0
    /\ j = 0
    /\ target = 0
    /\ include_target = TRUE
    /\ pc = "done"

\* QueryEntity.from_query(query, entity, span=..., normalized_span=...), called
\* with a span, with a normalized span, or with neither
FromQuery ==
    /\ ~qe.made
    /\ \E span \in SpanArgs \cup {None}, normalized_span \in SpanArgs \cup {None} :
         /\ span = None \/ normalized_span = None
         /\ qe' = [made |-> TRUE, span |-> span, normalized_span |-> normalized_span,
                   result |-> from_query(span, normalized_span)]
    /\ UNCHANGED <<_texts, _char_maps, call, onward, rvars>>

NextEntity == FromQuery

SpecEntity == InitEntity /\ [][NextEntity]_vars

\* ------------------------------------------------------------- the entities
\* What the resolver reads of an element: .start, .end, .entity.confidence
EntityValues == [start : 0..MaxPos, end : 0..MaxPos, confidence : 1..MaxConf]

\* _is_subset without the test of the end
_is_subset_start_only(t, o) == t.start >= o.start

_is_subset(t, o) == (t.start >= o.start) /\ (t.end <= o.end)

_is_superset(t, o) == (t.start <= o.start) /\ (t.end >= o.end)

_is_same_span(t, o) == _is_superset(t, o) /\ _is_subset(t, o)

\* set(range(start, end + 1)): empty when end < start
index_set(e) == {x \in e.start..e.end : TRUE}

\* _is_overlapping over range(start, end): the last index left out
_is_overlapping_exclusive_end(t, o) ==
    /\ ({x \in t.start..(t.end - 1) : TRUE} \cap {x \in o.start..(o.end - 1) : TRUE}) # {}
    /\ ~_is_subset(t, o)
    /\ ~_is_superset(t, o)

_is_overlapping(t, o) ==
    /\ (index_set(t) \cap index_set(o)) # {}
    /\ ~_is_subset(t, o)
    /\ ~_is_superset(t, o)

\* a removal that moves the last element into the hole
DelAt_swap(lst, k) ==
    [n \in 1..(Len(lst) - 1) |-> IF n = k + 1 THEN lst[Len(lst)] ELSE lst[n]]

\* del lst[k], k 0-based
DelAt(lst, k) == [n \in 1..(Len(lst) - 1) |-> IF n <= k THEN lst[n] ELSE lst[n + 1]]

\* filtered[k], k 0-based: the entity the reference stands for
ent(ref) == query_entities[ref]

\* ------------------------------------------------- resolve_entity_conflicts
InitResolve ==
    /\ \E n \in 0..MaxEntities : query_entities \in [1..n -> EntityValues]
    /\ NoQuery
    /\ filtered = [n \in 1..Len(query_entities) |-> n]
    /\ i = 0
    /\ j = 0
    /\ target = 0
    /\ include_target = TRUE
    /\ pc = "outer"

\* while i < len(filtered): include_target = True; target = filtered[i]; j = i + 1
OuterEnter ==
    /\ pc = "outer"
    /\ i < Len(filtered)
    /\ include_target' = TRUE
    /\ target' = filtered[i + 1]
    /\ j' = i + 1
    /\ pc' = "inner"
    /\ UNCHANGED <<query_entities, filtered, i, qvars>>

\* the outer loop ends: return filtered
OuterExit ==
    /\ pc = "outer"
    /\ ~(i < Len(filtered))
    /\ pc' = "done"
    /\ UNCHANGED <<query_entities, filtered, i, j, target, include_target, qvars>>

\* the superset branch deleting filtered[i] in place of filtered[j]
InnerSuperset_del_target ==
    /\ pc = "inner"
    /\ j < Len(filtered)
    /\ LET other == ent(filtered[j + 1]) IN
         _is_superset(ent(target), other) /\ ~_is_same_span(ent(target), other)
    /\ filtered' = DelAt(filtered, i)
    /\ include_target' = FALSE
    /\ pc' = "tail"
    /\ UNCHANGED <<query_entities, i, j, target, qvars>>

\* the target strictly covers the other: del filtered[j]; continue
InnerSuperset ==
    /\ pc = "inner"
    /\ j < Len(filtered)
    /\ LET other == ent(filtered[j + 1]) IN
         _is_superset(ent(target), other) /\ ~_is_same_span(ent(target), other)
    /\ filtered' = DelAt(filtered, j)
    /\ UNCHANGED <<query_entities, i, j, target, include_target, pc, qvars>>

\* the subset branch deleting filtered[j] in place of filtered[i]
InnerSubset_del_other ==
    /\ pc = "inner"
    /\ j < Len(filtered)
    /\ LET other == ent(filtered[j + 1]) IN
         /\ ~(_is_superset(ent(target), other) /\ ~_is_same_span(ent(target), other))
         /\ _is_subset(ent(target), other) /\ ~_is_same_span(ent(target), other)
    /\ filtered' = DelAt(filtered, j)
    /\ include_target' = FALSE
    /\ pc' = "tail"
    /\ UNCHANGED <<query_entities, i, j, target, qvars>>

\* the target is strictly covered: del filtered[i]; include_target = False; break
InnerSubset ==
    /\ pc = "inner"
    /\ j < Len(filtered)
    /\ LET other == ent(filtered[j + 1]) IN
         /\ ~(_is_superset(ent(target), other) /\ ~_is_same_span(ent(target), other))
         /\ _is_subset(ent(target), other) /\ ~_is_same_span(ent(target), other)
    /\ filtered' = DelAt(filtered, i)
    /\ include_target' = FALSE
    /\ pc' = "tail"
    /\ UNCHANGED <<query_entities, i, j, target, qvars>>

\* the guard of the third branch
SameOrOverlap(t, o) ==
    /\ ~(_is_superset(t, o) /\ ~_is_same_span(t, o))
    /\ ~(_is_subset(t, o) /\ ~_is_same_span(t, o))
    /\ (_is_same_span(t, o) \/ _is_overlapping(t, o))

\* the comparison written as `>`
TargetWins_strict(t, o) == t.confidence > o.confidence

\* target.entity.confidence >= other.entity.confidence
TargetWins(t, o) == t.confidence >= o.confidence

\* same span or overlap, the target wins: del filtered[j]; continue
InnerKeepTarget ==
    /\ pc = "inner"
    /\ j < Len(filtered)
    /\ LET other == ent(filtered[j + 1]) IN
         /\ SameOrOverlap(ent(target), other)
         /\ TargetWins(ent(target), other)
    /\ filtered' = DelAt(filtered, j)
    /\ UNCHANGED <<query_entities, i, j, target, include_target, pc, qvars>>

\* same span or overlap, the other wins: del filtered[i]; include_target = False; break
InnerDropTarget ==
    /\ pc = "inner"
    /\ j < Len(filtered)
    /\ LET other == ent(filtered[j + 1]) IN
         /\ SameOrOverlap(ent(target), other)
         /\ ~TargetWins(ent(target), other)
         /\ ent(target).confidence < other.confidence
    /\ filtered' = DelAt(filtered, i)
    /\ include_target' = FALSE
    /\ pc' = "tail"
    /\ UNCHANGED <<query_entities, i, j, target, qvars>>

\* no branch removed anything: j += 1
InnerAdvance ==
    /\ pc = "inner"
    /\ j < Len(filtered)
    /\ LET other == ent(filtered[j + 1]) IN
         /\ ~(_is_superset(ent(target), other) /\ ~_is_same_span(ent(target), other))
         /\ ~(_is_subset(ent(target), other) /\ ~_is_same_span(ent(target), other))
         /\ \/ ~(_is_same_span(ent(target), other) \/ _is_overlapping(ent(target), other))
            \/ /\ ~TargetWins(ent(target), other)
               /\ ~(ent(target).confidence < other.confidence)
    /\ j' = j + 1
    /\ UNCHANGED <<query_entities, filtered, i, target, include_target, pc, qvars>>

\* the inner loop's condition fails
InnerExit ==
    /\ pc = "inner"
    /\ ~(j < Len(filtered))
    /\ pc' = "tail"
    /\ UNCHANGED <<query_entities, filtered, i, j, target, include_target, qvars>>

\* the tail without its increment
OuterTail_stuck ==
    /\ pc = "tail"
    /\ i' = i
    /\ pc' = "outer"
    /\ UNCHANGED <<query_entities, filtered, j, target, include_target, qvars>>

\* if include_target: i += 1
OuterTail ==
    /\ pc = "tail"
    /\ i' = IF include_target THEN i + 1 ELSE i
    /\ pc' = "outer"
    /\ UNCHANGED <<query_entities, filtered, j, target, include_target, qvars>>

resolve_entity_conflicts ==
    \/ OuterEnter
    \/ OuterExit
    \/ InnerSuperset
    \/ InnerSubset
    \/ InnerKeepTarget
    \/ InnerDropTarget
    \/ InnerAdvance
    \/ InnerExit
    \/ OuterTail

Next == resolve_entity_conflicts

Spec == InitResolve /\ [][Next]_vars

\* the function runs to its return: nothing else is scheduled
FairSpec == Spec /\ WF_vars(Next)

\* the argument is a list of two entities
InitPair == InitResolve /\ Len(query_entities) = 2

SpecPair == InitPair /\ [][Next]_vars

\* the returned list, as entities
Returned == [n \in 1..Len(filtered) |-> ent(filtered[n])]

\* ---------------------------------------------------------------- claims
\* the working list, as the positions its elements have in the argument
IsSubsequence ==
    /\ \A n \in 1..Len(filtered) : filtered[n] \in 1..Len(query_entities)
    /\ \A m, n \in 1..Len(filtered) : m < n => filtered[m] < filtered[n]

SameSpan(a, b) == a.start = b.start /\ a.end = b.end

\* a's span covers b's
Covers(a, b) == a.start <= b.start /\ b.end <= a.end

Intersect(a, b) == \E x \in a.start..a.end : x \in b.start..b.end

Conflict(a, b) == SameSpan(a, b) \/ Covers(a, b) \/ Covers(b, a) \/ Intersect(a, b)

\* C1: the returned list holds no two elements in conflict: no two of the
\* same span, none covering another, no two with intersecting index sets.
C1_NoConflictLeft ==
    pc = "done" =>
        \A m, n \in 1..Len(filtered) : m # n => ~Conflict(Returned[m], Returned[n])

\* three entities, some of them in conflict, two of them returned
C1_Witness ==
    /\ pc = "done"
    /\ Len(query_entities) = 3
    /\ Len(filtered) = 2
    /\ \E m, n \in 1..3 : m # n /\ Intersect(query_entities[m], query_entities[n])

\* C2: at every state the working list is a subsequence of the argument:
\* each element is an element of the argument, none twice, and in the
\* argument's order; so is the returned list.
C2_Subsequence == IsSubsequence

\* the inner scan after a removal, two elements left
C2_Witness ==
    /\ pc = "inner"
    /\ Len(query_entities) = 3
    /\ filtered = <<2, 3>>

\* C4: of two entities [A, B] with the same span, or overlapping spans none
\* of which covers the other, exactly A is returned when confidence(A) >=
\* confidence(B) and exactly B otherwise.
C4_PairByConfidence ==
    LET A == query_entities[1]
        B == query_entities[2]
    IN (/\ pc = "done"
        /\ Len(query_entities) = 2
        /\ SameSpan(A, B) \/ (Intersect(A, B) /\ ~Covers(A, B) /\ ~Covers(B, A)))
       => filtered = (IF A.confidence >= B.confidence THEN <<1>> ELSE <<2>>)

\* a tie between two overlapping spans, the earlier one returned
C4_Witness ==
    /\ pc = "done"
    /\ Len(query_entities) = 2
    /\ Intersect(query_entities[1], query_entities[2])
    /\ ~Covers(query_entities[1], query_entities[2])
    /\ ~Covers(query_entities[2], query_entities[1])
    /\ query_entities[1].confidence = query_entities[2].confidence
    /\ filtered = <<1>>

\* C5: of two entities one of whose spans strictly covers the other's, only
\* the one of the wider span is returned, whatever the order and the
\* confidences.
C5_PairWiderWins ==
    LET A == query_entities[1]
        B == query_entities[2]
    IN (pc = "done" /\ Len(query_entities) = 2 /\ ~SameSpan(A, B))
       => /\ Covers(A, B) => filtered = <<1>>
          /\ Covers(B, A) => filtered = <<2>>

\* the second, wider and less confident, is the one returned
C5_Witness ==
    /\ pc = "done"
    /\ Len(query_entities) = 2
    /\ Covers(query_entities[2], query_entities[1])
    /\ ~SameSpan(query_entities[1], query_entities[2])
    /\ query_entities[1].confidence > query_entities[2].confidence
    /\ filtered = <<2>>

\* every index the loops read or delete at is inside the working list
IndexInRange ==
    pc = "inner" => (0 <= i /\ i < Len(filtered) /\ i < j /\ filtered[i + 1] = target)

\* an iteration of the inner loop advances j, removes an element or leaves
\* the loop; an iteration of the outer loop ends advancing i or with the
\* target removed; len(filtered) - i never grows
LoopProgress ==
    /\ (pc = "inner" /\ pc' = "inner") =>
          \/ j' = j + 1 /\ filtered' = filtered
          \/ j' = j /\ Len(filtered') = Len(filtered) - 1
    /\ (pc = "inner" /\ pc' # "inner") => pc' = "tail"
    /\ (pc = "tail") =>
          \/ i' = i + 1
          \/ i' = i /\ \A n \in 1..Len(filtered) : filtered[n] # target
    /\ Len(filtered') - i' <= Len(filtered) - i
    /\ (pc = "outer" /\ pc' = "outer") => FALSE

Kept == {filtered[n] : n \in 1..Len(filtered)}

\* entity k of the argument shares no index with any other entity of the
\* argument, covers none and is covered by none
Isolated(k) ==
    \A m \in 1..Len(query_entities) :
        m # k => ~Conflict(query_entities[k], query_entities[m])

\* C11: an entity whose span is disjoint from the span of every other entity
\* of the argument (no shared index, no containment either way) is in the
\* returned list; an argument of pairwise disjoint spans is returned as it
\* is, in its order.
C11_DisjointKept ==
    pc = "done" =>
        /\ \A k \in 1..Len(query_entities) : Isolated(k) => k \in Kept
        /\ (\A k \in 1..Len(query_entities) : Isolated(k))
              => filtered = [n \in 1..Len(query_entities) |-> n]

\* three entities: the first two in conflict, one of them removed, the third
\* disjoint from both and returned
C11_Witness ==
    /\ pc = "done"
    /\ Len(query_entities) = 3
    /\ Conflict(query_entities[1], query_entities[2])
    /\ Isolated(3)
    /\ Len(filtered) = 2
    /\ 3 \in Kept

\* neither span covers the other and they share an index
Overlap(a, b) == Intersect(a, b) /\ ~Covers(a, b) /\ ~Covers(b, a)

\* a's span is contained in, identical to or overlapping b's
Beaten(a, b) == Covers(b, a) \/ Overlap(a, b)

\* C12: of three or more entities, each one discarded has a span contained
\* in, identical to or overlapping the span of an entity of the returned
\* list: none is dropped while disjoint from everything that is kept.
C12_DiscardedForSurvivor ==
    (pc = "done" /\ Len(query_entities) >= 3) =>
        \A k \in (1..Len(query_entities)) \ Kept :
            \E m \in Kept : Conflict(query_entities[k], query_entities[m])

\* the entities of the argument that a chain of at most n links, each from
\* an entity to one its span is contained in, identical to or overlapping,
\* leads to an entity of S
RECURSIVE LinkedTo(_, _)
LinkedTo(S, n) ==
    IF n = 0 THEN S
    ELSE LinkedTo(S \cup {k \in 1..Len(query_entities) :
                            \E m \in S : Beaten(query_entities[k], query_entities[m])},
                  n - 1)

\* C12, amended: of three or more entities, each one discarded has a span
\* contained in, identical to or overlapping the span of an entity of the
\* returned list, or of another entity of the argument of which the same
\* holds in turn: a chain of such links ends at a returned entity.
C12_DiscardedByChain ==
    (pc = "done" /\ Len(query_entities) >= 3) =>
        \A k \in (1..Len(query_entities)) \ Kept :
            k \in LinkedTo(Kept, Len(query_entities))

\* the first lost to the second, the second to the third, and the first is
\* disjoint from the only entity returned
C12_Witness ==
    /\ pc = "done"
    /\ Len(query_entities) = 3
    /\ filtered = <<3>>
    /\ Beaten(query_entities[1], query_entities[2])
    /\ Beaten(query_entities[2], query_entities[3])
    /\ ~Conflict(query_entities[1], query_entities[3])

\* ---------------------------------------------- claims on transform_index
\* the key of the map the first step of a call reads
FirstKey(c) ==
    IF c.form_in < c.form_out THEN <<c.form_in, c.form_in + 1>>
    ELSE <<c.form_in, c.form_in - 1>>

\* C3: a step whose form pair has a registered map (any mapping but None,
\* whatever the number of its entries) fails with Invalid index on an index
\* the map has no entry for; the index is never returned unchanged.
C3_MissingKeyFails ==
    (/\ call.made
     /\ call.form_in # call.form_out
     /\ FirstKey(call) \in DOMAIN _char_maps
     /\ _char_maps[FirstKey(call)].kind = "dict"
     /\ call.index \notin DOMAIN _char_maps[FirstKey(call)].d)
    => (~call.result.ok /\ call.result.error = "Invalid index")

\* the keys of the maps a translation from form a to form b reads
PathKeys(a, b) ==
    IF a < b THEN {<<f, f + 1>> : f \in a..(b - 1)}
    ELSE {<<f, f - 1>> : f \in (b + 1)..a}

\* a dict that maps the indices onto the indices, no two of them to the same
Bijective(f) == DOMAIN f = Indices /\ \A x, y \in DOMAIN f : f[x] = f[y] => x = y

\* absent or None (the identity), or a bijective dict
OneToOne(key) ==
    \/ key \notin DOMAIN _char_maps
    \/ _char_maps[key].kind = "None"
    \/ Bijective(_char_maps[key].d)

\* the second call takes the first one's result back to the first one's form
IsRoundTrip ==
    /\ onward.made
    /\ onward.form_out = call.form_in
    /\ onward.result.ok

\* C6 as stated: with every map of the two translations 1:1 and both
\* translations succeeding, translating there and back returns the index.
C6_RoundTrip ==
    (/\ IsRoundTrip
     /\ \A key \in PathKeys(call.form_in, call.form_out) : OneToOne(key)
     /\ \A key \in PathKeys(call.form_out, call.form_in) : OneToOne(key))
    => onward.result.value = call.index

\* a key that holds no map, None or the empty dict
HoldsNoEntries(key) ==
    \/ key \notin DOMAIN _char_maps
    \/ DOMAIN _char_maps[key].d = {}

\* the map of the way back undoes the map of the way out, or both hold no entry
InversePair(out, back) ==
    \/ HoldsNoEntries(out) /\ HoldsNoEntries(back)
    \/ /\ ~HoldsNoEntries(out)
       /\ ~HoldsNoEntries(back)
       /\ \A k \in DOMAIN _char_maps[out].d :
            /\ _char_maps[out].d[k] \in DOMAIN _char_maps[back].d
            /\ _char_maps[back].d[_char_maps[out].d[k]] = k

\* C6 amended: when on each hop the map of the way back is the inverse of the
\* map of the way out (or both hold no entry) and both translations succeed,
\* translating there and back returns the index.
C6_RoundTripInverse ==
    (/\ IsRoundTrip
     /\ \A key \in PathKeys(call.form_in, call.form_out) :
          InversePair(key, <<key[2], key[1]>>))
    => onward.result.value = call.index

\* there and back through a map that moves the index
C6_Witness ==
    /\ IsRoundTrip
    /\ call.form_in # call.form_out
    /\ call.result.value # call.index
    /\ \A key \in PathKeys(call.form_in, call.form_out) :
         InversePair(key, <<key[2], key[1]>>)
    /\ onward.result.value = call.index

\* the form two steps from form f, through TEXT_FORM_PROCESSED
FarForm(f) == IF f = TEXT_FORM_RAW THEN TEXT_FORM_NORMALIZED ELSE TEXT_FORM_RAW

\* the first call goes from RAW or NORMALIZED to PROCESSED
IsFirstHop ==
    /\ call.made
    /\ call.form_in \in {TEXT_FORM_RAW, TEXT_FORM_NORMALIZED}
    /\ call.form_out = TEXT_FORM_PROCESSED

\* C7: translating between RAW and NORMALIZED has the outcome of translating
\* to PROCESSED and then on: the same index when both hops succeed, a failure
\* when either fails.
C7_ChainedEquivalence ==
    IsFirstHop =>
        LET direct == transform_index(call.index, call.form_in, FarForm(call.form_in)) IN
        /\ ~call.result.ok => ~direct.ok
        /\ (onward.made /\ onward.form_out = FarForm(call.form_in)) =>
              /\ onward.result.ok => (direct.ok /\ direct.value = onward.result.value)
              /\ ~onward.result.ok => ~direct.ok

\* two hops upward, each through a dict, ending on another index
C7_Witness ==
    /\ IsFirstHop
    /\ call.form_in = TEXT_FORM_RAW
    /\ call.result.value # call.index
    /\ onward.made
    /\ onward.form_out = TEXT_FORM_NORMALIZED
    /\ onward.result.ok
    /\ onward.result.value # call.result.value

\* ------------------------------------------------- claims on from_query
\* C8: for each of the three forms, the token span of a QueryEntity built by
\* from_query is the token range of that form's span counted in that form's
\* own full text.
C8_TokenSpanOfOwnText ==
    (qe.made /\ qe.result.ok) =>
        \A f \in TEXT_FORMS :
            qe.result.value.token_spans[f + 1] =
                get_token_span(text_of(f), qe.result.value.spans[f + 1])

\* C10: from_query with a raw span s and no normalized span returns, for
\* every s whose translations succeed, the empty span included, an entity of
\* spans (s, transform_span(s, RAW, PROCESSED), transform_span(s, RAW,
\* NORMALIZED)); with a normalized span only, the entity of that span and its
\* downward translations.
C10_SpansOfEntity ==
    /\ (qe.made /\ qe.span # None /\ qe.normalized_span = None) =>
          LET s == qe.span[1]
              proc == transform_span(s, TEXT_FORM_RAW, TEXT_FORM_PROCESSED)
              norm == transform_span(s, TEXT_FORM_RAW, TEXT_FORM_NORMALIZED)
          IN (proc.ok /\ norm.ok) =>
                /\ qe.result.ok
                /\ qe.result.value.spans = <<s, proc.value, norm.value>>
    /\ (qe.made /\ qe.span = None /\ qe.normalized_span # None) =>
          LET n == qe.normalized_span[1]
              proc == transform_span(n, TEXT_FORM_NORMALIZED, TEXT_FORM_PROCESSED)
              raw == transform_span(n, TEXT_FORM_NORMALIZED, TEXT_FORM_RAW)
          IN (proc.ok /\ raw.ok) =>
                /\ qe.result.ok
                /\ qe.result.value.spans = <<raw.value, proc.value, n>>
====
